---- MODULE Spec2Model ----
(***************************************************************************)
(* State-machine model of the DID class of src/src/index.ts.               *)
(*                                                                         *)
(* The instance state is the three private fields _client, _id and         *)
(* _resolver.  Every async method is a call running in a slot of Procs;    *)
(* a call advances by one action per stretch of code between two awaits,   *)
(* so that the synchronous methods and the other calls interleave with it  *)
(* exactly at its suspension points.                                       *)
(*                                                                         *)
(* Strings are TLA+ strings; "undefined" values are the string undefined.  *)
(* Collaborators that are not code of the repository (the RPC provider,    *)
(* did-resolver, did-jwt) are nondeterministic: a request may fail or      *)
(* answer anything of the right shape.                                     *)
(***************************************************************************)
EXTENDS Integers, Sequences, FiniteSets, TLC

VARIABLES _client, _id, _resolver, calls, nonces, last

vars == <<_client, _id, _resolver, calls, nonces, last>>

----------------------------------------------------------------------------
(* Bounds *)

\* randomString() draws at most MaxNonce nonces in a behaviour
MaxNonce == 2
\* timestamps (seconds) range over 0..MaxTime
MaxTime == 1
\* createJWE is called with at most MaxRecipients recipients
MaxRecipients == 2

----------------------------------------------------------------------------
(* Values *)

undefined == "<undefined>"
NoProc == 0
Procs == {1, 2}
\* a call starts in the first free slot
Free(p) == calls[p].pc = "idle" /\ \A q \in Procs : q < p => calls[q].pc # "idle"
\* the slot of the call where calls run one at a time
Solo == CHOOSE p \in Procs : \A q \in Procs : p <= q

\* provider connections (compared by identity, index.ts:138)
Providers == {"P1", "P2"}

\* DIDs of the model; DID_A is a proper prefix of DID_AB
DID_A == "did:m:a"
DID_AB == "did:m:ab"
DID_C == "did:m:c"
DID_D == "did:m:d"
DIDs == {DID_A, DID_AB, DID_C, DID_D}
\* DIDs a provider signs authentication responses for
AuthDIDs == {DID_A, DID_AB}

KidOf(did) == did \o "#k"
KeyOf(did) == "key-" \o did

Auds == {"aud1"}
Times == 0..MaxTime

----------------------------------------------------------------------------
(* Errors and results *)

NoError == "<ok>"
ErrNoProvider == "NoProvider"
ErrProviderConflict == "ProviderConflict"
ErrNotAuthenticated == "NotAuthenticated"
ErrInvalidResponse == "InvalidAuthenticationResponse"
ErrMissingKid == "MissingKid"
ErrVerificationFailed == "VerificationFailed"
ErrResolutionFailed == "ResolutionFailed"
ErrTransportFailed == "TransportFailed"
ErrDecodeFailed == "DecodeFailed"
ErrTypeError == "TypeError"

Pending == [status |-> "pending", error |-> NoError, reason |-> "", value |-> undefined]
Ok(v) == [status |-> "ok", error |-> NoError, reason |-> "", value |-> v]
Fail(e, why) == [status |-> "error", error |-> e, reason |-> why, value |-> undefined]

----------------------------------------------------------------------------
(* Strings *)

\* String.prototype.includes: t occurs in s as a contiguous substring
Includes(s, t) ==
    \E i \in 0..(Len(s) - Len(t)) : SubSeq(s, i + 1, i + Len(t)) = t

\* position of the first "#" of a DID URL, Len + 1 when it has none
FragmentAt(url) ==
    IF \E i \in 1..Len(url) : SubSeq(url, i, i) = "#"
    THEN CHOOSE i \in 1..Len(url) :
            /\ SubSeq(url, i, i) = "#"
            /\ \A j \in 1..(i - 1) : SubSeq(url, j, j) # "#"
    ELSE Len(url) + 1

\* the DID of a DID URL: what precedes its fragment
DidOf(url) == SubSeq(url, 1, FragmentAt(url) - 1)

\* the method of "did:<method>:<id>" (methods of the model have one letter)
MethodOf(did) == SubSeq(did, 5, 5)

----------------------------------------------------------------------------
(* DID documents and the resolver (did-resolver) *)

PublicKey(k, hex) == [key |-> k, publicKeyHex |-> hex]

\* The documents published for the DIDs of the model:
\*   DID_A   one key, with publicKeyHex, and an x25519 key agreement key
\*   DID_AB  one key, without publicKeyHex, and an x25519 key agreement key
\*   DID_C   no public key at all, an embedded x25519 key agreement key
\*   DID_D   one key with publicKeyHex, no key agreement key
DocOf(did) ==
    CASE did = DID_A  -> [publicKey |-> <<PublicKey(KeyOf(DID_A), "hexA")>>, x25519 |-> TRUE]
      [] did = DID_AB -> [publicKey |-> <<PublicKey(KeyOf(DID_AB), undefined)>>, x25519 |-> TRUE]
      [] did = DID_C  -> [publicKey |-> <<>>, x25519 |-> TRUE]
      [] OTHER        -> [publicKey |-> <<PublicKey(KeyOf(DID_D), "hexD")>>, x25519 |-> FALSE]

NoDoc == [publicKey |-> <<>>, x25519 |-> FALSE]

\* A Resolver instance is known by the methods of its registry.
Registries == {{}, {"m"}}

\* Resolver.resolve can succeed only for a DID whose method is registered
\* and whose document exists.
Resolvable(registry, didUrl) ==
    /\ DidOf(didUrl) \in DIDs
    /\ MethodOf(DidOf(didUrl)) \in registry

\* the answers Resolver.resolve(didUrl) may give: the document, or a failure
\* (always possible: the resolution is a network operation)
NotFound == [found |-> FALSE, doc |-> NoDoc]
Resolutions(registry, didUrl) ==
    IF Resolvable(registry, didUrl)
    THEN {NotFound, [found |-> TRUE, doc |-> DocOf(DidOf(didUrl))]}
    ELSE {NotFound}

\* what setResolver is given: a Resolver instance (it has the properties
\* registry and cache) or a plain registry (its properties are its methods)
ResolverInstance(registry) ==
    [properties |-> {"registry", "cache", "resolve"}, registry |-> registry]
PlainRegistry(registry) ==
    [properties |-> registry, registry |-> registry]
ResolverInputs ==
    {ResolverInstance(r) : r \in Registries} \cup {PlainRegistry(r) : r \in Registries}

isResolver(resolver) ==
    "registry" \in resolver.properties /\ "cache" \in resolver.properties

\* setResolver: the instance itself, or new Resolver(registry, cache)
setResolver(resolver) ==
    IF isResolver(resolver) THEN resolver.registry ELSE resolver.properties

----------------------------------------------------------------------------
(* Envelopes *)

\* A base64url segment: JSON (json, with its value) or something else.
JsonSeg(v) == [json |-> TRUE, value |-> v]
HeaderSeg(kid) == JsonSeg([kid |-> kid])
BadHeaderSeg == [json |-> FALSE, value |-> [kid |-> undefined]]

AuthPayload(did, nonce, aud, exp) == [did |-> did, nonce |-> nonce, aud |-> aud, exp |-> exp]
NoPayload == AuthPayload(undefined, 0, undefined, 0)
\* a payload segment that is a content identifier, not JSON
CidSeg == [json |-> FALSE, value |-> NoPayload]

\* the compact form "protected.payload.signature"; split('.') are its fields
CompactJWS(h, p, s) == [type |-> "string", protected |-> h, payload |-> p, signature |-> s]
\* the DagJWS form {payload, signatures: [{protected, signature}]}
DagJWS(h, p, s) ==
    [type |-> "object", payload |-> p, signatures |-> <<[protected |-> h, signature |-> s]>>]

fromDagJWS(jws) ==
    CompactJWS(jws.signatures[1].protected, jws.payload, jws.signatures[1].signature)

\* the signature an envelope carries, in either form
SignatureOf(jws) == IF jws.type = "string" THEN jws.signature ELSE jws.signatures[1].signature

\* base64urlToJSON: the JSON value of a segment; throws on what is not JSON
base64urlToJSON(seg) ==
    IF seg.json THEN Ok(seg.value) ELSE Fail(ErrDecodeFailed, "not JSON")

\* did-jwt verifyJWS(jws, publicKey): the signature was made by one of the keys
SignatureValid(jws, publicKey) ==
    \E i \in DOMAIN publicKey : publicKey[i].key = jws.signature

\* the segments of an envelope that the code has not read yet
Unread == [json |-> FALSE, value |-> NoPayload]

\* what a provider or a caller may put in the protected header
Kids == {KidOf(d) : d \in AuthDIDs}
Headers == {BadHeaderSeg, HeaderSeg(undefined), HeaderSeg("")} \cup {HeaderSeg(k) : k \in Kids}
Signatures == {KeyOf(d) : d \in AuthDIDs}
AuthPayloads ==
    {AuthPayload(d, n, a, e) :
        d \in AuthDIDs, n \in 0..MaxNonce, a \in Auds \cup {undefined}, e \in Times}
PayloadSegs == {CidSeg} \cup {JsonSeg(v) : v \in AuthPayloads}

----------------------------------------------------------------------------
(* verifyJWS, index.ts:242-258 *)

\* verifyJWS_kid without the test for an empty kid
verifyJWS_kid_defined(jws0) ==
    LET jws == IF jws0.type # "string" THEN fromDagJWS(jws0) ELSE jws0
        header == base64urlToJSON(jws.protected)
    IN  IF header.status # "ok" THEN header
        ELSE IF header.value.kid = undefined
             THEN Fail(ErrMissingKid, "No kid found in jws")
             ELSE Ok(header.value.kid)

\* lines 243-245: up to the call of this.resolve(kid)
verifyJWS_kid(jws0) ==
    LET jws == IF jws0.type # "string" THEN fromDagJWS(jws0) ELSE jws0
        header == base64urlToJSON(jws.protected)
    IN  IF header.status # "ok" THEN header
        ELSE IF header.value.kid = undefined \/ header.value.kid = ""
             THEN Fail(ErrMissingKid, "No kid found in jws")
             ELSE Ok(header.value.kid)

\* verifyJWS_result never decoding the payload
verifyJWS_result_kidOnly(jws0, kid, resolved) ==
    LET jws == IF jws0.type # "string" THEN fromDagJWS(jws0) ELSE jws0
    IN  IF ~resolved.found THEN Fail(ErrResolutionFailed, "resolve")
        ELSE IF ~SignatureValid(jws, resolved.doc.publicKey)
             THEN Fail(ErrVerificationFailed, "Signature invalid")
             ELSE Ok([kid |-> kid, hasPayload |-> FALSE, payload |-> NoPayload])

\* verifyJWS_result whose catch of line 252 keeps the undecoded segment as
\* the payload
verifyJWS_result_raw(jws0, kid, resolved) ==
    LET jws == IF jws0.type # "string" THEN fromDagJWS(jws0) ELSE jws0
        payload == base64urlToJSON(jws.payload)
    IN  IF ~resolved.found THEN Fail(ErrResolutionFailed, "resolve")
        ELSE IF ~SignatureValid(jws, resolved.doc.publicKey)
             THEN Fail(ErrVerificationFailed, "Signature invalid")
             ELSE Ok([kid |-> kid,
                      hasPayload |-> TRUE,
                      payload |-> IF payload.status = "ok" THEN payload.value ELSE jws.payload])

\* verifyJWS_result without the signature verification of line 248
verifyJWS_result_unverified(jws0, kid, resolved) ==
    LET jws == IF jws0.type # "string" THEN fromDagJWS(jws0) ELSE jws0
        payload == base64urlToJSON(jws.payload)
    IN  IF ~resolved.found THEN Fail(ErrResolutionFailed, "resolve")
        ELSE Ok([kid |-> kid,
                 hasPayload |-> payload.status = "ok",
                 payload |-> IF payload.status = "ok" THEN payload.value ELSE NoPayload])

\* lines 246-257: from the answer of this.resolve(kid) to the return;
\* resolved is that answer: whether a document was found, and the document
verifyJWS_result(jws0, kid, resolved) ==
    LET jws == IF jws0.type # "string" THEN fromDagJWS(jws0) ELSE jws0
        payload == base64urlToJSON(jws.payload)
    IN  IF ~resolved.found THEN Fail(ErrResolutionFailed, "resolve")
        ELSE IF ~SignatureValid(jws, resolved.doc.publicKey)
             THEN Fail(ErrVerificationFailed, "Signature invalid")
             ELSE Ok([kid |-> kid,
                      hasPayload |-> payload.status = "ok",
                      payload |-> IF payload.status = "ok" THEN payload.value ELSE NoPayload])

----------------------------------------------------------------------------
(* The instance *)

\* get authenticated, index.ts:115-117
authenticated == _id # undefined

\* get id, index.ts:122-127
id == IF _id = undefined THEN Fail(ErrNotAuthenticated, "DID is not authenticated") ELSE Ok(_id)

\* setProvider replacing whatever connection is bound
setProvider_rebind(client, provider) == [client |-> provider, error |-> NoError]

\* setProvider, index.ts:135-143: the binding afterwards and the error thrown
setProvider(client, provider) ==
    IF client = undefined THEN [client |-> provider, error |-> NoError]
    ELSE IF client # provider THEN [client |-> client, error |-> ErrProviderConflict]
    ELSE [client |-> client, error |-> NoError]

\* clearProvider keeping the connection
clearProvider_keep(client) == client

\* clearProvider, index.ts:148-152
clearProvider(client) == undefined

\* randomString(): a string no earlier call has drawn (the n-th is n)
randomString(drawn) == drawn + 1

\* authenticateChecks taking the kid of the response for the identifier
authenticateChecks_kidAsId(jws, kid, nonce, aud, now) ==
    LET decoded == base64urlToJSON(jws.payload)
        payload == decoded.value
    IN  IF decoded.status # "ok" THEN decoded
        ELSE IF ~Includes(kid, payload.did) THEN Fail(ErrInvalidResponse, "kid mismatch")
        ELSE IF payload.nonce # nonce THEN Fail(ErrInvalidResponse, "wrong nonce")
        ELSE IF payload.aud # aud THEN Fail(ErrInvalidResponse, "wrong aud")
        ELSE IF payload.exp < now THEN Fail(ErrInvalidResponse, "expired")
        ELSE Ok(kid)

\* authenticateChecks checking the audience before the nonce
authenticateChecks_audFirst(jws, kid, nonce, aud, now) ==
    LET decoded == base64urlToJSON(jws.payload)
        payload == decoded.value
    IN  IF decoded.status # "ok" THEN decoded
        ELSE IF ~Includes(kid, payload.did) THEN Fail(ErrInvalidResponse, "kid mismatch")
        ELSE IF payload.aud # aud THEN Fail(ErrInvalidResponse, "wrong aud")
        ELSE IF payload.nonce # nonce THEN Fail(ErrInvalidResponse, "wrong nonce")
        ELSE IF payload.exp < now THEN Fail(ErrInvalidResponse, "expired")
        ELSE Ok(payload.did)

\* authenticateChecks whose nonce check of line 183 accepts the nonces
\* drawn before its own
authenticateChecks_earlierNonce(jws, kid, nonce, aud, now) ==
    LET decoded == base64urlToJSON(jws.payload)
        payload == decoded.value
    IN  IF decoded.status # "ok" THEN decoded
        ELSE IF ~Includes(kid, payload.did) THEN Fail(ErrInvalidResponse, "kid mismatch")
        ELSE IF payload.nonce > nonce THEN Fail(ErrInvalidResponse, "wrong nonce")
        ELSE IF payload.aud # aud THEN Fail(ErrInvalidResponse, "wrong aud")
        ELSE IF payload.exp < now THEN Fail(ErrInvalidResponse, "expired")
        ELSE Ok(payload.did)

\* authenticateChecks without the nonce check of line 183
authenticateChecks_anyNonce(jws, kid, nonce, aud, now) ==
    LET decoded == base64urlToJSON(jws.payload)
        payload == decoded.value
    IN  IF decoded.status # "ok" THEN decoded
        ELSE IF ~Includes(kid, payload.did) THEN Fail(ErrInvalidResponse, "kid mismatch")
        ELSE IF payload.aud # aud THEN Fail(ErrInvalidResponse, "wrong aud")
        ELSE IF payload.exp < now THEN Fail(ErrInvalidResponse, "expired")
        ELSE Ok(payload.did)

\* the checks of authenticate on a verified response, index.ts:181-186
authenticateChecks(jws, kid, nonce, aud, now) ==
    LET decoded == base64urlToJSON(jws.payload)
        payload == decoded.value
    IN  IF decoded.status # "ok" THEN decoded
        ELSE IF ~Includes(kid, payload.did) THEN Fail(ErrInvalidResponse, "kid mismatch")
        ELSE IF payload.nonce # nonce THEN Fail(ErrInvalidResponse, "wrong nonce")
        ELSE IF payload.aud # aud THEN Fail(ErrInvalidResponse, "wrong aud")
        ELSE IF payload.exp < now THEN Fail(ErrInvalidResponse, "expired")
        ELSE Ok(payload.did)

\* lines 180-187 of authenticate for call c, whose response is jws
authenticate_result(c, jws, now) ==
    LET verified == verifyJWS_result(jws, c.kid, c.resolved)
    IN  IF verified.status # "ok" THEN verified
        ELSE authenticateChecks(jws, verified.value.kid, c.nonce, c.aud, now)

----------------------------------------------------------------------------
(* Calls *)

\* the instance state a call started from; void once another operation
\* has changed _client or _id since
Snapshot == [valid |-> TRUE, client |-> _client, id |-> _id]
Void == [valid |-> FALSE, client |-> undefined, id |-> undefined]

\* options of createJWE; {} is the default
Options(protectedHeader, aad) == [protectedHeader |-> protectedHeader, aad |-> aad]
NoOptions == Options(undefined, undefined)

\* no request sent to the provider
NoRequest == [method |-> "none"]

\* A call: its method (op), where it is suspended (pc), its arguments and
\* locals, and what it has done so far: the requests sent to the provider
\* (sent) and the last of them (request), the documents asked of
\* this.resolve (asked), the signatures
\* handed to did-jwt's verifyJWS (checked), the runs of the local
\* encryption path (local).  A call whose inner call has settled and which
\* has not resumed yet holds the result of the inner call (outcome).
IdleCall ==
    [op |-> "none", pc |-> "idle", aud |-> undefined, nonce |-> 0,
     jws |-> CompactJWS(BadHeaderSeg, Unread, undefined),
     kid |-> undefined, resolved |-> NotFound,
     payload |-> undefined, cleartext |-> undefined, recipients |-> <<>>, options |-> NoOptions,
     keys |-> <<>>, encrypters |-> FALSE, request |-> NoRequest, outcome |-> Pending,
     sent |-> 0, asked |-> 0, checked |-> 0, local |-> 0, pre |-> Void]

\* what a call did and the snapshot it started from, without its locals
Trace(c) ==
    [IdleCall EXCEPT !.sent = c.sent, !.asked = c.asked, !.checked = c.checked,
                     !.local = c.local, !.pre = c.pre]

\* the calls after slot p became c; when the step changed _client or _id
\* (changed) the snapshots of the other calls are void
Step(p, c, changed) ==
    [q \in Procs |->
        IF q = p THEN c
        ELSE IF changed /\ calls[q].pc # "idle" THEN [calls[q] EXCEPT !.pre = Void]
        ELSE calls[q]]

\* What the response given to an authenticate call was: whether the
\* resolver found the document of its kid and the signature was made by a
\* key of that document (verified), the identifier and the nonce its
\* payload carries, and which of the conditions of lines 182-185 its
\* payload meets for call c at time now (violated).  A payload that meets
\* none of them is "valid" when its expiry is after now and "expiring"
\* when its expiry is now; one that meets some is "invalid".
Verified(c, sig) ==
    /\ c.resolved.found
    /\ \E i \in DOMAIN c.resolved.doc.publicKey : c.resolved.doc.publicKey[i].key = sig
\* the conditions of the four throwing ifs that hold of payload v
Violated(c, v, now) ==
    {r \in {"kid mismatch", "wrong nonce", "wrong aud", "expired"} :
        \/ r = "kid mismatch" /\ ~Includes(c.kid, v.did)
        \/ r = "wrong nonce" /\ v.nonce # c.nonce
        \/ r = "wrong aud" /\ v.aud # c.aud
        \/ r = "expired" /\ v.exp < now}
NoResponse ==
    [verified |-> FALSE, payload |-> "unread", did |-> undefined, nonce |-> 0, violated |-> {}]
Response(c, seg, sig, now) ==
    IF ~seg.json
    THEN [NoResponse EXCEPT !.verified = Verified(c, sig), !.payload = "undecodable"]
    ELSE [verified |-> Verified(c, sig),
          payload |-> IF Violated(c, seg.value, now) # {} THEN "invalid"
                      ELSE IF seg.value.exp = now THEN "expiring"
                      ELSE "valid",
          did |-> seg.value.did,
          nonce |-> seg.value.nonce,
          violated |-> Violated(c, seg.value, now)]

\* The operation that ran last.  A call that suspended: Await.  A call
\* that settled with result r: End, with the call as it ended (c) and the
\* response it read.  A synchronous method: Sync.
Await(op) ==
    [op |-> op, step |-> "await", result |-> Pending, call |-> IdleCall, response |-> NoResponse]
End(op, r, c, response) ==
    [op |-> op, step |-> "end", result |-> r, call |-> c, response |-> response]
Sync(op, r) == End(op, r, IdleCall, NoResponse)
Returned == Ok(undefined)

----------------------------------------------------------------------------
(* Synchronous methods *)

Init ==
    /\ _client \in Providers \cup {undefined}
    /\ _id = undefined
    /\ _resolver \in {setResolver(r) : r \in ResolverInputs}
    /\ calls = [p \in Procs |-> IdleCall]
    /\ nonces = 0
    /\ last = Sync("new", Returned)

\* setProvider(provider), index.ts:135-143
SetProvider(provider) ==
    \E r \in {setProvider(_client, provider)} :
        /\ last' = Sync("setProvider",
                        IF r.error = NoError THEN Returned
                        ELSE Fail(r.error, "A different provider is already set"))
        /\ _client' = r.client
        /\ calls' = Step(NoProc, IdleCall, r.client # _client)
        /\ UNCHANGED <<_id, _resolver, nonces>>

\* clearProvider(), index.ts:148-152
ClearProvider ==
    /\ _client' = clearProvider(_client)
    /\ calls' = Step(NoProc, IdleCall, _client # undefined)
    /\ last' = Sync("clearProvider", Returned)
    /\ UNCHANGED <<_id, _resolver, nonces>>

\* setResolver(resolver, cache), index.ts:160-162
SetResolver(resolver) ==
    /\ _resolver' = setResolver(resolver)
    /\ last' = Sync("setResolver", Returned)
    /\ UNCHANGED <<_client, _id, calls, nonces>>

\* deauthenticate(), index.ts:193-196
Deauthenticate ==
    /\ _client' = clearProvider(_client)
    /\ _id' = undefined
    /\ calls' = Step(NoProc, IdleCall, _client # undefined \/ _id # undefined)
    /\ last' = Sync("deauthenticate", Returned)
    /\ UNCHANGED <<_resolver, nonces>>

----------------------------------------------------------------------------
(* authenticate, index.ts:167-188 *)

\* lines 168-173: the binding after the explicit provider, if any, was set,
\* and the error thrown
authenticate_bind(client, provider) ==
    LET bind == IF provider # undefined THEN setProvider(client, provider)
                ELSE [client |-> client, error |-> NoError]
    IN  IF bind.error = NoError /\ bind.client = undefined
        THEN [client |-> bind.client, error |-> ErrNoProvider]
        ELSE bind

\* lines 168-179: bind the explicit provider, require a provider, draw the
\* nonce and send did_authenticate; the call then awaits the response
Authenticate(p, provider, aud) ==
    /\ Free(p)
    /\ \E bind \in {authenticate_bind(_client, provider)} :
          IF bind.error # NoError
          THEN /\ last' = End("authenticate", Fail(bind.error, "before the request"),
                                [IdleCall EXCEPT !.pre = Snapshot], NoResponse)
               /\ UNCHANGED <<_client, _id, _resolver, calls, nonces>>
          ELSE /\ nonces < MaxNonce
               /\ nonces' = randomString(nonces)
               /\ _client' = bind.client
               /\ calls' = Step(p, [IdleCall EXCEPT !.op = "authenticate",
                                                    !.pc = "request",
                                                    !.aud = aud,
                                                    !.nonce = randomString(nonces),
                                                    !.sent = 1,
                                                    !.pre = Snapshot],
                                bind.client # _client)
               /\ last' = Await("authenticate")
               /\ UNCHANGED <<_id, _resolver>>

\* line 175 rejects: the provider request failed
AuthenticateRequestFails(p) ==
    /\ calls[p].op = "authenticate" /\ calls[p].pc = "request"
    /\ calls' = Step(p, IdleCall, FALSE)
    /\ last' = End("authenticate", Fail(ErrTransportFailed, "request"), Trace(calls[p]), NoResponse)
    /\ UNCHANGED <<_client, _id, _resolver, nonces>>

\* lines 175-180 and 243-246: the provider answers with an envelope whose
\* protected header is h; verifyJWS reads the kid and asks the current
\* resolver for it, or throws: authenticate, suspended at line 180, is
\* then rejected when it resumes.  The payload and the signature of the
\* envelope are drawn where the code first reads them, in
\* AuthenticateVerified and AuthenticateChecked.
AuthenticateResponse(p, h) ==
    /\ calls[p].op = "authenticate" /\ calls[p].pc = "request"
    /\ \E kid \in {verifyJWS_kid(DagJWS(h, Unread, undefined))} :
          IF kid.status # "ok"
          THEN /\ calls' = Step(p, [calls[p] EXCEPT !.pc = "rejected", !.outcome = kid], FALSE)
               /\ last' = Await("authenticate")
          ELSE /\ \E resolved \in Resolutions(_resolver, kid.value) :
                     calls' = Step(p, [calls[p] EXCEPT !.pc = "resolve",
                                                       !.kid = kid.value,
                                                       !.resolved = resolved,
                                                       !.asked = 1], FALSE)
               /\ last' = Await("authenticate")
    /\ UNCHANGED <<_client, _id, _resolver, nonces>>

\* lines 345 and 246-257: the resolver answered and verifyJWS resumes; the
\* envelope carries payload segment seg and signature sig.  verifyJWS
\* throws when the document is missing or the signature is not valid, and
\* returns the kid otherwise; authenticate is still suspended at line 180
\* and other operations run before it resumes.  Of the envelope the code
\* has read the signature when the document was found (line 248), and the
\* payload when the signature was valid (line 250, its value is not used);
\* line 181 reads the payload again.
AuthenticateVerified(p, seg, sig) ==
    /\ calls[p].op = "authenticate" /\ calls[p].pc = "resolve"
    /\ \E c \in {calls[p]} :
       \E r \in {verifyJWS_result(DagJWS(HeaderSeg(c.kid), seg, sig), c.kid, c.resolved)} :
          IF r.status # "ok"
          THEN calls' = Step(p, [c EXCEPT !.pc = "rejected",
                                          !.outcome = r,
                                          !.jws = DagJWS(HeaderSeg(c.kid), Unread,
                                                         IF c.resolved.found THEN sig ELSE undefined),
                                          !.checked = IF c.resolved.found THEN 1 ELSE 0], FALSE)
          ELSE calls' = Step(p, [c EXCEPT !.pc = "verified",
                                          !.kid = r.value.kid,
                                          !.jws = DagJWS(HeaderSeg(c.kid), Unread, sig),
                                          !.checked = 1], FALSE)
    /\ last' = Await("authenticate")
    /\ UNCHANGED <<_client, _id, _resolver, nonces>>

\* line 180: authenticate resumes with the failure of verifyJWS and is
\* rejected with it.  The code has not read the payload of the rejected
\* envelope, nor the clock: seg and now are what the record of the response
\* says of them.
AuthenticateRejected(p, seg, now) ==
    /\ calls[p].op = "authenticate" /\ calls[p].pc = "rejected"
    /\ calls' = Step(p, IdleCall, FALSE)
    /\ \E c \in {calls[p]} :
          last' = End("authenticate", c.outcome, Trace(c),
                      Response(c, seg, SignatureOf(c.jws), now))
    /\ UNCHANGED <<_client, _id, _resolver, nonces>>

\* lines 180-187: authenticate resumes with the kid; it decodes
\* response.jws.payload, which is seg by now, runs the four checks at time
\* now (Date.now() / 1000) and sets the identifier
AuthenticateChecked(p, seg, now) ==
    /\ calls[p].op = "authenticate" /\ calls[p].pc = "verified"
    /\ \E c \in {calls[p]} :
       \E r \in {authenticateChecks([c.jws EXCEPT !.payload = seg], c.kid, c.nonce, c.aud, now)} :
           /\ _id' = IF r.status = "ok" THEN r.value ELSE _id
           /\ calls' = Step(p, IdleCall, r.status = "ok" /\ r.value # _id)
           /\ last' = End("authenticate", r, Trace(c), Response(c, seg, SignatureOf(c.jws), now))
    /\ UNCHANGED <<_client, _resolver, nonces>>

\* The inputs of AuthenticateVerified and AuthenticateChecked that the code
\* reads, in the order it reads them: the signature (line 248), the
\* payload segment once the signature is verified (lines 250 and 181),
\* payload.nonce once the kid check passed (line 183), payload.aud once
\* the nonce check passed (line 184), payload.exp and the clock once the
\* aud check passed (line 185).  An input that is not read is drawn as one
\* fixed value: the step does not depend on it.  The payload that is not
\* read is StalePayload, which answers no challenge (nonces start at 1).
StalePayload == AuthPayload(DID_A, 0, undefined, 0)
Stops(c, v, sig, reason) ==
    authenticate_result(c, DagJWS(HeaderSeg(c.kid), JsonSeg(v), sig), 0).reason = reason
PayloadsRead(c, sig) ==
    UNION {
        IF Stops(c, AuthPayload(d, 0, undefined, 0), sig, "kid mismatch")
        THEN {AuthPayload(d, 0, undefined, 0)}
        ELSE UNION {
            IF Stops(c, AuthPayload(d, n, undefined, 0), sig, "wrong nonce")
            THEN {AuthPayload(d, n, undefined, 0)}
            ELSE UNION {
                IF Stops(c, AuthPayload(d, n, a, 0), sig, "wrong aud")
                THEN {AuthPayload(d, n, a, 0)}
                ELSE {AuthPayload(d, n, a, e) : e \in Times}
                : a \in Auds \cup {undefined}}
            : n \in 0..MaxNonce}
        : d \in AuthDIDs}
SegsRead(c, sig) ==
    IF verifyJWS_result(DagJWS(HeaderSeg(c.kid), Unread, sig), c.kid, c.resolved).status = "ok"
    THEN {CidSeg} \cup {JsonSeg(v) : v \in PayloadsRead(c, sig)}
    ELSE {JsonSeg(StalePayload)}
TimesRead(c, seg, sig) ==
    IF authenticate_result(c, DagJWS(HeaderSeg(c.kid), seg, sig), 0).status = "ok"
    THEN Times ELSE {0}

\* authenticate, two calls at a time, with the methods that change the
\* provider binding and the identifier; the resolver is that of
\* construction
Next ==
    \/ \E provider \in Providers : SetProvider(provider)
    \/ ClearProvider
    \/ Deauthenticate
    \/ \E p \in Procs, provider \in Providers \cup {undefined}, aud \in Auds \cup {undefined} :
          Authenticate(p, provider, aud)
    \/ \E p \in Procs : AuthenticateRequestFails(p)
    \/ \E p \in Procs, h \in Headers : AuthenticateResponse(p, h)
    \/ \E p \in Procs, sig \in Signatures : AuthenticateVerified(p, JsonSeg(StalePayload), sig)
    \/ \E p \in Procs : AuthenticateRejected(p, JsonSeg(StalePayload), 0)
    \/ \E p \in Procs :
          \E seg \in SegsRead(calls[p], SignatureOf(calls[p].jws)) :
             \E now \in TimesRead(calls[p], seg, SignatureOf(calls[p].jws)) :
                AuthenticateChecked(p, seg, now)

Spec == Init /\ [][Next]_vars

\* The payloads that answer the challenge of another call: the nonce of
\* a call started earlier or running now, with either identifier, the
\* audience of call c and an expiry that has not passed.
ReplayedSegs(c) ==
    {JsonSeg(AuthPayload(d, n, c.aud, MaxTime)) :
        d \in AuthDIDs, n \in (1..nonces) \ {c.nonce}}

\* authenticate, two calls at a time on an instance whose provider was
\* bound at construction; every response may carry the nonce of another
\* call, whether it passes verification or not
NextReplay ==
    \/ \E p \in Procs, aud \in Auds \cup {undefined} : Authenticate(p, undefined, aud)
    \/ \E p \in Procs : AuthenticateRequestFails(p)
    \/ \E p \in Procs, h \in Headers : AuthenticateResponse(p, h)
    \/ \E p \in Procs, sig \in Signatures : AuthenticateVerified(p, JsonSeg(StalePayload), sig)
    \/ \E p \in Procs :
          \E seg \in {JsonSeg(StalePayload)} \cup ReplayedSegs(calls[p]) :
             AuthenticateRejected(p, seg, 0)
    \/ \E p \in Procs :
          \E seg \in SegsRead(calls[p], SignatureOf(calls[p].jws)) \cup ReplayedSegs(calls[p]) :
             \E now \in TimesRead(calls[p], seg, SignatureOf(calls[p].jws)) :
                AuthenticateChecked(p, seg, now)

SpecReplay == Init /\ [][NextReplay]_vars

\* authenticate, one call at a time, given every response: each payload
\* with each signature at each time
NextChecks ==
    \/ \E provider \in Providers : SetProvider(provider)
    \/ Deauthenticate
    \/ \E provider \in Providers \cup {undefined}, aud \in Auds \cup {undefined} :
          Authenticate(Solo, provider, aud)
    \/ AuthenticateRequestFails(Solo)
    \/ \E h \in Headers : AuthenticateResponse(Solo, h)
    \/ \E seg \in PayloadSegs, sig \in Signatures : AuthenticateVerified(Solo, seg, sig)
    \/ \E seg \in PayloadSegs, now \in Times : AuthenticateRejected(Solo, seg, now)
    \/ \E seg \in PayloadSegs, now \in Times : AuthenticateChecked(Solo, seg, now)

SpecChecks == Init /\ [][NextChecks]_vars

----------------------------------------------------------------------------
(* verifyJWS called on its own, index.ts:242-258 *)

\* the envelopes verifyJWS is called with: both forms, every header, a CID
\* or a JSON payload, the signature of either key; the kids include one
\* whose document has no key and one of an unknown method
KID_X == "did:x:z#k"
VerifyHeaders == Headers \cup {HeaderSeg(KidOf(DID_C)), HeaderSeg(KID_X)}
VerifyPayloadSegs == {CidSeg, JsonSeg(AuthPayload(DID_A, 0, undefined, 0))}
JWSInputs ==
    {CompactJWS(h, seg, sig) : h \in VerifyHeaders, seg \in VerifyPayloadSegs, sig \in Signatures}
    \cup {DagJWS(h, seg, sig) : h \in VerifyHeaders, seg \in VerifyPayloadSegs, sig \in Signatures}

\* lines 243-246: read the kid; without one the call throws, with one it
\* asks this.resolve(kid) and awaits the document
VerifyJWS(p, jws) ==
    /\ Free(p)
    /\ \E kid \in {verifyJWS_kid(jws)} :
          IF kid.status # "ok"
          THEN /\ last' = End("verifyJWS", kid, IdleCall, NoResponse)
               /\ UNCHANGED calls
          ELSE /\ \E resolved \in Resolutions(_resolver, kid.value) :
                     calls' = Step(p, [IdleCall EXCEPT !.op = "verifyJWS",
                                                       !.pc = "resolve",
                                                       !.jws = jws,
                                                       !.kid = kid.value,
                                                       !.resolved = resolved,
                                                       !.asked = 1], FALSE)
               /\ last' = Await("verifyJWS")
    /\ UNCHANGED <<_client, _id, _resolver, nonces>>

\* lines 246-257: the resolver answered
VerifyJWSResolved(p) ==
    /\ calls[p].op = "verifyJWS" /\ calls[p].pc = "resolve"
    /\ calls' = Step(p, IdleCall, FALSE)
    /\ last' = End("verifyJWS",
                    verifyJWS_result(calls[p].jws, calls[p].kid, calls[p].resolved),
                    [Trace(calls[p]) EXCEPT !.checked = IF calls[p].resolved.found THEN 1 ELSE 0,
                                            !.jws = calls[p].jws],
                    [NoResponse EXCEPT !.verified = Verified(calls[p], SignatureOf(calls[p].jws))])
    /\ UNCHANGED <<_client, _id, _resolver, nonces>>

\* verifyJWS called by the application and by authenticate, one call at
\* a time
NextVerify ==
    \/ \E resolver \in ResolverInputs : SetResolver(resolver)
    \/ \E jws \in JWSInputs : VerifyJWS(Solo, jws)
    \/ VerifyJWSResolved(Solo)
    \/ \E provider \in Providers \cup {undefined}, aud \in Auds \cup {undefined} :
          Authenticate(Solo, provider, aud)
    \/ AuthenticateRequestFails(Solo)
    \/ \E h \in Headers : AuthenticateResponse(Solo, h)
    \/ \E sig \in Signatures : AuthenticateVerified(Solo, JsonSeg(StalePayload), sig)
    \/ AuthenticateRejected(Solo, JsonSeg(StalePayload), 0)
    \/ \E seg \in SegsRead(calls[Solo], SignatureOf(calls[Solo].jws)) :
          \E now \in TimesRead(calls[Solo], seg, SignatureOf(calls[Solo].jws)) :
             AuthenticateChecked(Solo, seg, now)

SpecVerify == Init /\ [][NextVerify]_vars

----------------------------------------------------------------------------
(* createJWE, index.ts:267-293 *)

Cleartexts == {"m1", "m2"}
RecipientLists == UNION {[1..n -> DIDs] : n \in 0..MaxRecipients}
OptionsInputs == {NoOptions, Options("ph", "aad")}

\* lines 275-278: the keys extracted from the first recipient's document;
\* reading publicKey[0].publicKeyHex of a document without keys throws
createJWE_keys(didDoc) ==
    IF didDoc.publicKey = <<>> THEN [error |-> ErrTypeError, keys |-> <<>>]
    ELSE IF didDoc.publicKey[1].publicKeyHex # undefined
         THEN [error |-> NoError, keys |-> <<didDoc.publicKey[1].publicKeyHex>>]
         ELSE [error |-> NoError, keys |-> <<>>]

\* lines 281-286: the parameters of did_createJWE
createJWE_params(cleartext, keys, options) ==
    [protectedHeader |-> options.protectedHeader, aad |-> options.aad,
     cleartext |-> cleartext, recipients |-> keys]

\* the envelope a provider makes for a did_createJWE request
ProviderJWE(params) ==
    [by |-> "provider", cleartext |-> params.cleartext, recipients |-> params.recipients,
     protectedHeader |-> params.protectedHeader, aad |-> params.aad]

\* did-jwt createJWE(cleartext, encrypters, protectedHeader, aad), the
\* encrypters being those of the DIDs in recipients: an envelope addressed
\* to them; reading encrypters[0].alg throws when there is none
LocalJWE(cleartext, recipients, protectedHeader, aad) ==
    IF recipients = <<>> THEN Fail(ErrTypeError, "encrypters[0] is undefined")
    ELSE Ok([by |-> "did-jwt", cleartext |-> cleartext, recipients |-> recipients,
             protectedHeader |-> protectedHeader, aad |-> aad])

\* did-jwt resolveX25519Encrypters(dids, resolver): whether it may succeed
\* (every DID resolves to a document with an x25519 key agreement key) and
\* fail (always: it resolves over the network)
Encrypters(registry, recipients) ==
    IF \A i \in DOMAIN recipients :
          Resolvable(registry, recipients[i]) /\ DocOf(recipients[i]).x25519
    THEN {TRUE, FALSE}
    ELSE {FALSE}

\* the catch block encrypting without the options of the call
createJWE_catch_noOptions(cleartext, recipients, options, encrypters) ==
    IF ~encrypters THEN Fail(ErrResolutionFailed, "Could not find x25519 key")
    ELSE LocalJWE(cleartext, recipients, undefined, undefined)

\* lines 290-291, the catch block: encrypters is whether
\* resolveX25519Encrypters(recipients, this._resolver) succeeded
createJWE_catch(cleartext, recipients, options, encrypters) ==
    IF ~encrypters THEN Fail(ErrResolutionFailed, "Could not find x25519 key")
    ELSE LocalJWE(cleartext, recipients, options.protectedHeader, options.aad)

\* createJWE is called by the application and by createDagJWE (line 307),
\* which returns its promise: createDagJWE settles as createJWE did, once
\* it resumes
JWECall(p) == calls[p].op \in {"createJWE", "createDagJWE"}

\* createJWE of call c settles with r
createJWE_settles(p, c, r) ==
    IF c.op = "createDagJWE"
    THEN /\ calls' = Step(p, [c EXCEPT !.pc = "settle", !.outcome = r], FALSE)
         /\ last' = Await("createDagJWE")
    ELSE /\ calls' = Step(p, IdleCall, FALSE)
         /\ last' = End("createJWE", r, c, NoResponse)

\* lines 272-274, called as op: require a provider, then ask the resolver
\* for the document of recipients[0] (no DID when the list is empty)
createJWE_called(op, p, cleartext, recipients, options) ==
    /\ Free(p)
    /\ \E c \in {[IdleCall EXCEPT !.op = op,
                                  !.cleartext = cleartext,
                                  !.recipients = recipients,
                                  !.options = options,
                                  !.pre = Snapshot]} :
          IF _client = undefined
          THEN createJWE_settles(p, c, Fail(ErrNoProvider, "No provider available"))
          ELSE /\ \E resolved \in (IF recipients = <<>> THEN {NotFound}
                                    ELSE Resolutions(_resolver, recipients[1])) :
                     calls' = Step(p, [c EXCEPT !.pc = "resolve",
                                                !.resolved = resolved,
                                                !.asked = 1], FALSE)
               /\ last' = Await(op)
    /\ UNCHANGED <<_client, _id, _resolver, nonces>>

CreateJWE(p, cleartext, recipients, options) ==
    createJWE_called("createJWE", p, cleartext, recipients, options)

\* lines 274-288: the resolver answered; extract the keys and send
\* did_createJWE.  Without a bound provider by now, this._client.request
\* throws inside the try and the catch block starts.
CreateJWEResolved(p) ==
    /\ JWECall(p) /\ calls[p].pc = "resolve"
    /\ \E c \in {calls[p]}, extracted \in {createJWE_keys(calls[p].resolved.doc)} :
          IF ~c.resolved.found
          THEN createJWE_settles(p, c, Fail(ErrResolutionFailed, "resolve"))
          ELSE IF extracted.error # NoError
          THEN createJWE_settles(p, c, Fail(extracted.error, "publicKey[0] is undefined"))
          ELSE IF _client = undefined
          THEN /\ \E e \in Encrypters(_resolver, c.recipients) :
                     calls' = Step(p, [c EXCEPT !.pc = "encrypters",
                                                !.keys = extracted.keys,
                                                !.encrypters = e,
                                                !.local = 1], FALSE)
               /\ last' = Await(c.op)
          ELSE /\ calls' = Step(p, [c EXCEPT !.pc = "request",
                                             !.keys = extracted.keys,
                                             !.sent = 1], FALSE)
               /\ last' = Await(c.op)
    /\ UNCHANGED <<_client, _id, _resolver, nonces>>

\* lines 280-288: the provider answers with its envelope, which is returned
CreateJWEResponse(p) ==
    /\ JWECall(p) /\ calls[p].pc = "request"
    /\ createJWE_settles(p, calls[p],
                         Ok(ProviderJWE(createJWE_params(calls[p].cleartext, calls[p].keys,
                                                         calls[p].options))))
    /\ UNCHANGED <<_client, _id, _resolver, nonces>>

\* lines 289-290: the request failed; the catch block resolves the
\* encrypters of all recipients with the current resolver
CreateJWERequestFails(p) ==
    /\ JWECall(p) /\ calls[p].pc = "request"
    /\ \E e \in Encrypters(_resolver, calls[p].recipients) :
          calls' = Step(p, [calls[p] EXCEPT !.pc = "encrypters",
                                            !.encrypters = e,
                                            !.local = calls[p].local + 1], FALSE)
    /\ last' = Await(calls[p].op)
    /\ UNCHANGED <<_client, _id, _resolver, nonces>>

\* lines 290-291: resolveX25519Encrypters answered.  When it failed the
\* call throws; otherwise did-jwt createJWE is called and the call waits
\* for its promise.
CreateJWELocal(p) ==
    /\ JWECall(p) /\ calls[p].pc = "encrypters"
    /\ \E c \in {calls[p]} :
          IF ~c.encrypters
          THEN createJWE_settles(p, c, createJWE_catch(c.cleartext, c.recipients,
                                                       c.options, c.encrypters))
          ELSE /\ calls' = Step(p, [c EXCEPT !.pc = "encrypt"], FALSE)
               /\ last' = Await(c.op)
    /\ UNCHANGED <<_client, _id, _resolver, nonces>>

\* line 291: did-jwt createJWE settled, and the call with it
CreateJWEEncrypted(p) ==
    /\ JWECall(p) /\ calls[p].pc = "encrypt"
    /\ \E c \in {calls[p]} :
          createJWE_settles(p, c, createJWE_catch(c.cleartext, c.recipients,
                                                  c.options, c.encrypters))
    /\ UNCHANGED <<_client, _id, _resolver, nonces>>

\* createJWE, one call at a time, while the application changes the
\* provider binding and the resolver
NextJWE ==
    \/ \E provider \in Providers : SetProvider(provider)
    \/ ClearProvider
    \/ \E resolver \in ResolverInputs : SetResolver(resolver)
    \/ \E cleartext \in Cleartexts, recipients \in RecipientLists, options \in OptionsInputs :
          CreateJWE(Solo, cleartext, recipients, options)
    \/ CreateJWEResolved(Solo)
    \/ CreateJWEResponse(Solo)
    \/ CreateJWERequestFails(Solo)
    \/ CreateJWELocal(Solo)
    \/ CreateJWEEncrypted(Solo)

SpecJWE == Init /\ [][NextJWE]_vars

----------------------------------------------------------------------------
(* createJWS, index.ts:205-214, and decryptJWE, index.ts:316-325 *)

\* CreateJWSOptions and DecryptJWEOptions
JWSOptions(did, linkedBlock) == [did |-> did, linkedBlock |-> linkedBlock]
JWEOptions(did) == [did |-> did]

\* !options.did: the option is absent or the empty string
Falsy(v) == v = undefined \/ v = ""

\* createJWS_request without the guard of line 207
createJWS_request_unguarded(client, identifier, payload, options) ==
    IF client = undefined THEN Fail(ErrNoProvider, "No provider available")
    ELSE Ok([method |-> "did_createJWS",
             did |-> IF Falsy(options.did) THEN identifier ELSE options.did,
             linkedBlock |-> options.linkedBlock,
             payload |-> payload])

\* lines 206-212: the guards, then the request of createJWS
createJWS_request(client, identifier, payload, options) ==
    IF client = undefined THEN Fail(ErrNoProvider, "No provider available")
    ELSE IF identifier = undefined THEN Fail(ErrNotAuthenticated, "DID is not authenticated")
    ELSE Ok([method |-> "did_createJWS",
             did |-> IF Falsy(options.did) THEN identifier ELSE options.did,
             linkedBlock |-> options.linkedBlock,
             payload |-> payload])

\* lines 317-323: the guards, then the request of decryptJWE
decryptJWE_request(client, identifier, jwe, options) ==
    IF client = undefined THEN Fail(ErrNoProvider, "No provider available")
    ELSE IF identifier = undefined THEN Fail(ErrNotAuthenticated, "DID is not authenticated")
    ELSE Ok([method |-> "did_decryptJWE",
             did |-> IF Falsy(options.did) THEN identifier ELSE options.did,
             jwe |-> jwe])

\* the payloads createJWS is given, the DIDs options.did names, the
\* envelopes decryptJWE is given
JWSPayloads == {AuthPayload(DID_A, 0, undefined, 0), AuthPayload(DID_D, 0, undefined, 0)}
OptionDids == {undefined, "", DID_AB}
JWEInputs == {"jwe1"}

\* encodeBase64 and decodeBase64
encodeBase64(bytes) == "b64:" \o bytes
decodeBase64(s) == SubSeq(s, 5, Len(s))

\* a base64url segment that is the encoding of bytes, not of JSON
Base64UrlSeg(bytes) == [json |-> FALSE, value |-> NoPayload, bytes |-> bytes]
encodeBase64Url(bytes) == Base64UrlSeg(bytes)

\* The envelope a provider makes for a did_createJWS request.  An honest
\* one has the kid of request.did, the payload of the request (a string is
\* taken as the encoded payload, anything else is encoded as JSON) and the
\* signature of the key of request.did; a provider may also answer with
\* a signature of its own making.
ProviderPayloadSeg(payload) == IF "json" \in DOMAIN payload THEN payload ELSE JsonSeg(payload)
HonestJWS(request) ==
    DagJWS(HeaderSeg(KidOf(request.did)), ProviderPayloadSeg(request.payload), KeyOf(request.did))
ForgedJWS(request) ==
    DagJWS(HeaderSeg(KidOf(request.did)), ProviderPayloadSeg(request.payload), "forged")
ProviderJWS(request, honest) == IF honest THEN HonestJWS(request) ELSE ForgedJWS(request)

\* CreateJWS storing the DID it signs with as the identifier
CreateJWS_storesDid(p, payload, options) ==
    /\ Free(p)
    /\ \E r \in {createJWS_request(_client, _id, payload, options)} :
          IF r.status # "ok"
          THEN /\ last' = End("createJWS", r, [IdleCall EXCEPT !.pre = Snapshot], NoResponse)
               /\ UNCHANGED <<_id, calls>>
          ELSE /\ _id' = r.value.did
               /\ calls' = Step(p, [IdleCall EXCEPT !.op = "createJWS",
                                                    !.pc = "request",
                                                    !.request = r.value,
                                                    !.sent = 1,
                                                    !.pre = Snapshot], r.value.did # _id)
               /\ last' = Await("createJWS")
    /\ UNCHANGED <<_client, _resolver, nonces>>

\* lines 206-212: createJWS up to its request
CreateJWS(p, payload, options) ==
    /\ Free(p)
    /\ \E r \in {createJWS_request(_client, _id, payload, options)} :
          IF r.status # "ok"
          THEN /\ last' = End("createJWS", r, [IdleCall EXCEPT !.pre = Snapshot], NoResponse)
               /\ UNCHANGED calls
          ELSE /\ calls' = Step(p, [IdleCall EXCEPT !.op = "createJWS",
                                                    !.pc = "request",
                                                    !.request = r.value,
                                                    !.sent = 1,
                                                    !.pre = Snapshot], FALSE)
               /\ last' = Await("createJWS")
    /\ UNCHANGED <<_client, _id, _resolver, nonces>>

\* lines 209-213: the provider answers with its envelope, which is returned
CreateJWSResponse(p, honest) ==
    /\ calls[p].op = "createJWS" /\ calls[p].pc = "request"
    /\ calls' = Step(p, IdleCall, FALSE)
    /\ last' = End("createJWS", Ok(ProviderJWS(calls[p].request, honest)), calls[p], NoResponse)
    /\ UNCHANGED <<_client, _id, _resolver, nonces>>

\* line 209 rejects
CreateJWSRequestFails(p) ==
    /\ calls[p].op = "createJWS" /\ calls[p].pc = "request"
    /\ calls' = Step(p, IdleCall, FALSE)
    /\ last' = End("createJWS", Fail(ErrTransportFailed, "request"), calls[p], NoResponse)
    /\ UNCHANGED <<_client, _id, _resolver, nonces>>

\* lines 317-323: decryptJWE up to its request
DecryptJWE(p, jwe, options) ==
    /\ Free(p)
    /\ \E r \in {decryptJWE_request(_client, _id, jwe, options)} :
          IF r.status # "ok"
          THEN /\ last' = End("decryptJWE", r, [IdleCall EXCEPT !.pre = Snapshot], NoResponse)
               /\ UNCHANGED calls
          ELSE /\ calls' = Step(p, [IdleCall EXCEPT !.op = "decryptJWE",
                                                    !.pc = "request",
                                                    !.request = r.value,
                                                    !.sent = 1,
                                                    !.pre = Snapshot], FALSE)
               /\ last' = Await("decryptJWE")
    /\ UNCHANGED <<_client, _id, _resolver, nonces>>

\* lines 320-324: the provider answers with the cleartext in base64
DecryptJWEResponse(p, cleartext) ==
    /\ calls[p].op = "decryptJWE" /\ calls[p].pc = "request"
    /\ calls' = Step(p, IdleCall, FALSE)
    /\ last' = End("decryptJWE", Ok(decodeBase64(cleartext)), calls[p], NoResponse)
    /\ UNCHANGED <<_client, _id, _resolver, nonces>>

\* line 320 rejects
DecryptJWERequestFails(p) ==
    /\ calls[p].op = "decryptJWE" /\ calls[p].pc = "request"
    /\ calls' = Step(p, IdleCall, FALSE)
    /\ last' = End("decryptJWE", Fail(ErrTransportFailed, "request"), calls[p], NoResponse)
    /\ UNCHANGED <<_client, _id, _resolver, nonces>>

----------------------------------------------------------------------------
(* createDagJWS, index.ts:223-233 *)

\* the IPLD objects createDagJWS is given
DagPayloads == {"doc1", "doc2"}

\* dag-jose-utils encodePayload: the content identifier and the block of
\* a payload
encodePayload(payload) == [cid |-> "cid:" \o payload, linkedBlock |-> "block:" \o payload]

\* jws.link = cid
WithLink(jws, cid) ==
    [type |-> jws.type, payload |-> jws.payload, signatures |-> jws.signatures, link |-> cid]

\* line 227: the call awaits encodePayload
CreateDagJWS(p, payload, options) ==
    /\ Free(p)
    /\ calls' = Step(p, [IdleCall EXCEPT !.op = "createDagJWS",
                                         !.pc = "encode",
                                         !.payload = payload,
                                         !.options = options,
                                         !.pre = Snapshot], FALSE)
    /\ last' = Await("createDagJWS")
    /\ UNCHANGED <<_client, _id, _resolver, nonces>>

\* lines 227-230 and 206-212: the payload is encoded; createJWS is called
\* with the encoded content identifier and the encoded block.  It throws
\* at its guards or sends its request; createDagJWS is suspended at line
\* 230 either way.
CreateDagJWSEncoded(p) ==
    /\ calls[p].op = "createDagJWS" /\ calls[p].pc = "encode"
    /\ \E c \in {calls[p]}, enc \in {encodePayload(calls[p].payload)} :
       \E r \in {createJWS_request(_client, _id, encodeBase64Url(enc.cid),
                                    [c.options EXCEPT !.linkedBlock = encodeBase64(enc.linkedBlock)])} :
          IF r.status # "ok"
          THEN calls' = Step(p, [c EXCEPT !.pc = "rejected", !.outcome = r], FALSE)
          ELSE calls' = Step(p, [c EXCEPT !.pc = "request",
                                          !.request = r.value,
                                          !.sent = 1], FALSE)
    /\ last' = Await("createDagJWS")
    /\ UNCHANGED <<_client, _id, _resolver, nonces>>

\* lines 209-213: the provider answers and createJWS returns its envelope,
\* which has no link yet; createDagJWS is still suspended at line 230
CreateDagJWSResponse(p, honest) ==
    /\ calls[p].op = "createDagJWS" /\ calls[p].pc = "request"
    /\ calls' = Step(p, [calls[p] EXCEPT !.pc = "link",
                                         !.jws = ProviderJWS(calls[p].request, honest)], FALSE)
    /\ last' = Await("createDagJWS")
    /\ UNCHANGED <<_client, _id, _resolver, nonces>>

\* lines 230-232: createDagJWS resumes with the envelope; it gets its link
\* and is returned with the block
CreateDagJWSLinked(p) ==
    /\ calls[p].op = "createDagJWS" /\ calls[p].pc = "link"
    /\ calls' = Step(p, IdleCall, FALSE)
    /\ \E enc \in {encodePayload(calls[p].payload)} :
          last' = End("createDagJWS",
                      Ok([jws |-> WithLink(calls[p].jws, enc.cid),
                          linkedBlock |-> enc.linkedBlock]),
                      calls[p], NoResponse)
    /\ UNCHANGED <<_client, _id, _resolver, nonces>>

\* line 209 rejects: the request of createJWS failed, and createJWS with it
CreateDagJWSRequestFails(p) ==
    /\ calls[p].op = "createDagJWS" /\ calls[p].pc = "request"
    /\ calls' = Step(p, [calls[p] EXCEPT !.pc = "rejected",
                                         !.outcome = Fail(ErrTransportFailed, "request")], FALSE)
    /\ last' = Await("createDagJWS")
    /\ UNCHANGED <<_client, _id, _resolver, nonces>>

\* line 230: createDagJWS resumes with the failure of createJWS and is
\* rejected with it
CreateDagJWSRejected(p) ==
    /\ calls[p].op = "createDagJWS" /\ calls[p].pc = "rejected"
    /\ calls' = Step(p, IdleCall, FALSE)
    /\ last' = End("createDagJWS", calls[p].outcome, calls[p], NoResponse)
    /\ UNCHANGED <<_client, _id, _resolver, nonces>>

\* verifyJWS called on the envelope that createDagJWS has just returned
VerifyReturnedJWS(p) ==
    /\ last.op = "createDagJWS" /\ last.step = "end" /\ last.result.status = "ok"
    /\ VerifyJWS(p, last.result.value.jws)

\* createDagJWS followed by verifyJWS on what it returned, one call at a
\* time, on an instance that authenticates and changes its resolver
NextDag ==
    \/ \E resolver \in ResolverInputs : SetResolver(resolver)
    \/ \E provider \in Providers \cup {undefined}, aud \in Auds \cup {undefined} :
          Authenticate(Solo, provider, aud)
    \/ AuthenticateRequestFails(Solo)
    \/ \E h \in Headers : AuthenticateResponse(Solo, h)
    \/ \E sig \in Signatures : AuthenticateVerified(Solo, JsonSeg(StalePayload), sig)
    \/ AuthenticateRejected(Solo, JsonSeg(StalePayload), 0)
    \/ \E seg \in SegsRead(calls[Solo], SignatureOf(calls[Solo].jws)) :
          \E now \in TimesRead(calls[Solo], seg, SignatureOf(calls[Solo].jws)) :
             AuthenticateChecked(Solo, seg, now)
    \/ \E payload \in DagPayloads, did \in OptionDids :
          CreateDagJWS(Solo, payload, JWSOptions(did, undefined))
    \/ CreateDagJWSEncoded(Solo)
    \/ \E honest \in BOOLEAN : CreateDagJWSResponse(Solo, honest)
    \/ CreateDagJWSLinked(Solo)
    \/ CreateDagJWSRequestFails(Solo)
    \/ CreateDagJWSRejected(Solo)
    \/ VerifyReturnedJWS(Solo)
    \/ VerifyJWSResolved(Solo)

SpecDag == Init /\ [][NextDag]_vars

\* createJWS and decryptJWE calls, two at a time, while the application
\* binds and clears the provider, authenticates (one authenticate call at
\* a time) and deauthenticates
NextSign ==
    \/ \E provider \in Providers : SetProvider(provider)
    \/ ClearProvider
    \/ Deauthenticate
    \/ \E provider \in Providers \cup {undefined}, aud \in Auds \cup {undefined} :
          Authenticate(Solo, provider, aud)
    \/ AuthenticateRequestFails(Solo)
    \/ \E h \in Headers : AuthenticateResponse(Solo, h)
    \/ \E sig \in Signatures : AuthenticateVerified(Solo, JsonSeg(StalePayload), sig)
    \/ AuthenticateRejected(Solo, JsonSeg(StalePayload), 0)
    \/ \E seg \in SegsRead(calls[Solo], SignatureOf(calls[Solo].jws)) :
          \E now \in TimesRead(calls[Solo], seg, SignatureOf(calls[Solo].jws)) :
             AuthenticateChecked(Solo, seg, now)
    \/ \E p \in Procs, payload \in JWSPayloads, did \in OptionDids :
          CreateJWS(p, payload, JWSOptions(did, undefined))
    \/ \E p \in Procs, honest \in BOOLEAN : CreateJWSResponse(p, honest)
    \/ \E p \in Procs : CreateJWSRequestFails(p)
    \/ \E p \in Procs, jwe \in JWEInputs, did \in OptionDids :
          DecryptJWE(p, jwe, JWEOptions(did))
    \/ \E p \in Procs, m \in Cleartexts : DecryptJWEResponse(p, encodeBase64(m))
    \/ \E p \in Procs : DecryptJWERequestFails(p)

SpecSign == Init /\ [][NextSign]_vars

----------------------------------------------------------------------------
(* createDagJWE, index.ts:302-308, decryptDagJWE, index.ts:334-337, and
   resolve, index.ts:344-346 *)

\* dag-jose-utils prepareCleartext and decodeCleartext: an IPLD object as
\* padded bytes, and back; decoding what is not such an encoding throws
prepareCleartext(cleartext) == "dag:" \o cleartext
decodeCleartext(bytes) ==
    IF Len(bytes) >= 4 /\ SubSeq(bytes, 1, 4) = "dag:"
    THEN Ok(SubSeq(bytes, 5, Len(bytes)))
    ELSE Fail(ErrDecodeFailed, "not a cleartext block")

\* line 307: createJWE on the prepared cleartext
CreateDagJWE(p, cleartext, recipients, options) ==
    createJWE_called("createDagJWE", p, prepareCleartext(cleartext), recipients, options)

\* line 307: createJWE has settled; createDagJWE resumes and settles alike
CreateDagJWESettled(p) ==
    /\ calls[p].op = "createDagJWE" /\ calls[p].pc = "settle"
    /\ calls' = Step(p, IdleCall, FALSE)
    /\ last' = End("createDagJWE", calls[p].outcome, calls[p], NoResponse)
    /\ UNCHANGED <<_client, _id, _resolver, nonces>>

\* lines 335 and 317-323: decryptJWE with the default options; it throws
\* at its guards or sends its request, and decryptDagJWE is suspended at
\* line 335 either way
DecryptDagJWE(p, jwe) ==
    /\ Free(p)
    /\ \E r \in {decryptJWE_request(_client, _id, jwe, JWEOptions(undefined))},
          c \in {[IdleCall EXCEPT !.op = "decryptDagJWE", !.pre = Snapshot]} :
          IF r.status # "ok"
          THEN calls' = Step(p, [c EXCEPT !.pc = "rejected", !.outcome = r], FALSE)
          ELSE calls' = Step(p, [c EXCEPT !.pc = "request",
                                          !.request = r.value,
                                          !.sent = 1], FALSE)
    /\ last' = Await("decryptDagJWE")
    /\ UNCHANGED <<_client, _id, _resolver, nonces>>

\* lines 320-324: the provider answers with the cleartext in base64 and
\* decryptJWE returns its bytes; decryptDagJWE is still suspended at line
\* 335
DecryptDagJWEResponse(p, cleartext) ==
    /\ calls[p].op = "decryptDagJWE" /\ calls[p].pc = "request"
    /\ calls' = Step(p, [calls[p] EXCEPT !.pc = "decode",
                                         !.cleartext = decodeBase64(cleartext)], FALSE)
    /\ last' = Await("decryptDagJWE")
    /\ UNCHANGED <<_client, _id, _resolver, nonces>>

\* lines 335-336: decryptDagJWE resumes with the bytes and decodes them as
\* an IPLD object
DecryptDagJWEDecoded(p) ==
    /\ calls[p].op = "decryptDagJWE" /\ calls[p].pc = "decode"
    /\ calls' = Step(p, IdleCall, FALSE)
    /\ last' = End("decryptDagJWE", decodeCleartext(calls[p].cleartext), calls[p], NoResponse)
    /\ UNCHANGED <<_client, _id, _resolver, nonces>>

\* line 320 rejects: the request failed, and decryptJWE with it
DecryptDagJWERequestFails(p) ==
    /\ calls[p].op = "decryptDagJWE" /\ calls[p].pc = "request"
    /\ calls' = Step(p, [calls[p] EXCEPT !.pc = "rejected",
                                         !.outcome = Fail(ErrTransportFailed, "request")], FALSE)
    /\ last' = Await("decryptDagJWE")
    /\ UNCHANGED <<_client, _id, _resolver, nonces>>

\* line 335: decryptDagJWE resumes with the failure of decryptJWE and is
\* rejected with it
DecryptDagJWERejected(p) ==
    /\ calls[p].op = "decryptDagJWE" /\ calls[p].pc = "rejected"
    /\ calls' = Step(p, IdleCall, FALSE)
    /\ last' = End("decryptDagJWE", calls[p].outcome, calls[p], NoResponse)
    /\ UNCHANGED <<_client, _id, _resolver, nonces>>

\* line 345: ask the current resolver for the document of didUrl
Resolve(p, didUrl) ==
    /\ Free(p)
    /\ \E resolved \in Resolutions(_resolver, didUrl) :
          calls' = Step(p, [IdleCall EXCEPT !.op = "resolve",
                                            !.pc = "resolve",
                                            !.resolved = resolved,
                                            !.asked = 1,
                                            !.pre = Snapshot], FALSE)
    /\ last' = Await("resolve")
    /\ UNCHANGED <<_client, _id, _resolver, nonces>>

\* line 345: the resolver answered with the document, or failed
ResolveResolved(p) ==
    /\ calls[p].op = "resolve" /\ calls[p].pc = "resolve"
    /\ calls' = Step(p, IdleCall, FALSE)
    /\ last' = End("resolve",
                    IF calls[p].resolved.found THEN Ok(calls[p].resolved.doc)
                    ELSE Fail(ErrResolutionFailed, "resolve"),
                    calls[p], NoResponse)
    /\ UNCHANGED <<_client, _id, _resolver, nonces>>

\* what the methods are called with where every method of the class runs
HonestEnvelope == DagJWS(HeaderSeg(KidOf(DID_A)), CidSeg, KeyOf(DID_A))
SignPayload == AuthPayload(DID_D, 0, undefined, 0)
SignDids == {undefined, DID_AB}

\* The methods that sign, encrypt, decrypt, verify and resolve, two calls
\* at a time, interleaved with each other and with authenticate (one call
\* at a time), deauthenticate and setResolver, which change the provider
\* binding, the identifier and the resolver.
NextFrame ==
    \/ Deauthenticate
    \/ \E resolver \in ResolverInputs : SetResolver(resolver)
    \/ \E aud \in Auds : Authenticate(Solo, "P1", aud)
    \/ AuthenticateRequestFails(Solo)
    \/ \E h \in Headers : AuthenticateResponse(Solo, h)
    \/ \E sig \in Signatures : AuthenticateVerified(Solo, JsonSeg(StalePayload), sig)
    \/ AuthenticateRejected(Solo, JsonSeg(StalePayload), 0)
    \/ \E seg \in SegsRead(calls[Solo], SignatureOf(calls[Solo].jws)) :
          \E now \in TimesRead(calls[Solo], seg, SignatureOf(calls[Solo].jws)) :
             AuthenticateChecked(Solo, seg, now)
    \/ \E p \in Procs, did \in SignDids : CreateJWS(p, SignPayload, JWSOptions(did, undefined))
    \/ \E p \in Procs : CreateJWSResponse(p, TRUE)
    \/ \E p \in Procs : CreateJWSRequestFails(p)
    \/ \E p \in Procs : CreateDagJWS(p, "doc1", JWSOptions(undefined, undefined))
    \/ \E p \in Procs : CreateDagJWSEncoded(p)
    \/ \E p \in Procs : CreateDagJWSResponse(p, TRUE)
    \/ \E p \in Procs : CreateDagJWSLinked(p)
    \/ \E p \in Procs : CreateDagJWSRequestFails(p)
    \/ \E p \in Procs : CreateDagJWSRejected(p)
    \/ \E p \in Procs : CreateJWE(p, "m1", <<DID_A>>, NoOptions)
    \/ \E p \in Procs : CreateDagJWE(p, "m1", <<DID_A>>, NoOptions)
    \/ \E p \in Procs : CreateJWEResolved(p)
    \/ \E p \in Procs : CreateJWEResponse(p)
    \/ \E p \in Procs : CreateJWERequestFails(p)
    \/ \E p \in Procs : CreateJWELocal(p)
    \/ \E p \in Procs : CreateJWEEncrypted(p)
    \/ \E p \in Procs : CreateDagJWESettled(p)
    \/ \E p \in Procs, jwe \in JWEInputs : DecryptJWE(p, jwe, JWEOptions(undefined))
    \/ \E p \in Procs : DecryptJWEResponse(p, encodeBase64("m1"))
    \/ \E p \in Procs : DecryptJWERequestFails(p)
    \/ \E p \in Procs, jwe \in JWEInputs : DecryptDagJWE(p, jwe)
    \/ \E p \in Procs : DecryptDagJWEResponse(p, encodeBase64(prepareCleartext("m1")))
    \/ \E p \in Procs : DecryptDagJWEDecoded(p)
    \/ \E p \in Procs : DecryptDagJWERequestFails(p)
    \/ \E p \in Procs : DecryptDagJWERejected(p)
    \/ \E p \in Procs : VerifyJWS(p, HonestEnvelope)
    \/ \E p \in Procs : VerifyJWSResolved(p)
    \/ \E p \in Procs : Resolve(p, DID_A)
    \/ \E p \in Procs : ResolveResolved(p)

SpecFrame == Init /\ [][NextFrame]_vars

----------------------------------------------------------------------------
(* Properties of authenticate and of the provider binding *)

\* an authenticate call has just settled
AuthenticateEnded == last.op = "authenticate" /\ last.step = "end"

\* C1: a response that passes signature verification, whose kid references
\* the claimed identifier, whose nonce and audience are those of the call
\* and whose expiry is in the future makes authenticate succeed and return
\* the claimed identifier; afterwards authenticated is true and id is that
\* identifier.
C1_ValidResponseAuthenticates ==
    (AuthenticateEnded /\ last.response.verified /\ last.response.payload = "valid")
    => /\ last.result = Ok(last.response.did)
       /\ authenticated
       /\ id = Ok(last.response.did)

C1_Witness ==
    /\ AuthenticateEnded
    /\ last.response.verified /\ last.response.payload = "valid"
    /\ last.result.status = "ok"
    /\ last.result.value \in AuthDIDs
    /\ id = Ok(last.result.value)

\* the reason of the earliest of the checks violated, in the order kid,
\* nonce, audience, expiry
Earliest(violated) ==
    IF "kid mismatch" \in violated THEN "kid mismatch"
    ELSE IF "wrong nonce" \in violated THEN "wrong nonce"
    ELSE IF "wrong aud" \in violated THEN "wrong aud"
    ELSE "expired"

\* C2 (as claimed): a response with a mismatched nonce or audience, a kid
\* that does not reference the claimed identifier or an expiry in the past
\* makes authenticate fail with InvalidAuthenticationResponse, and a call
\* started on an unauthenticated instance leaves authenticated false.
C2_AnyInvalidResponseIsInvalid ==
    (AuthenticateEnded /\ last.response.payload = "invalid")
    => /\ last.result.status = "error"
       /\ last.result.error = ErrInvalidResponse
       /\ (last.call.pre.valid /\ last.call.pre.id = undefined) => ~authenticated

\* the failure of a response that did not pass verification: that of the
\* step that stopped it, which is reading the kid of the protected header
\* (nothing was asked of the resolver), resolving the kid (no signature was
\* checked) or checking the signature
StoppedVerification ==
    /\ last.result.status = "error"
    /\ last.call.asked = 0 => last.result.error \in {ErrDecodeFailed, ErrMissingKid}
    /\ (last.call.asked = 1 /\ last.call.checked = 0) => last.result.error = ErrResolutionFailed
    /\ last.call.checked = 1 => last.result.error = ErrVerificationFailed

\* C2 (amended): such a response makes authenticate fail: with
\* InvalidAuthenticationResponse when it passes signature verification;
\* when it does not, with the failure that stopped verification (the
\* protected header is not JSON or has no kid, the kid does not resolve,
\* the signature is not valid); a call started on an unauthenticated
\* instance leaves authenticated false.
C2_InvalidResponseRejected ==
    (AuthenticateEnded /\ last.response.payload = "invalid")
    => /\ last.result.status = "error"
       /\ last.response.verified => last.result.error = ErrInvalidResponse
       /\ ~last.response.verified => StoppedVerification
       /\ (last.call.pre.valid /\ last.call.pre.id = undefined) => ~authenticated

C2_Witness ==
    /\ AuthenticateEnded
    /\ last.response.verified /\ last.response.payload = "invalid"
    /\ last.result.error = ErrInvalidResponse
    /\ last.call.pre.valid /\ last.call.pre.id = undefined
    /\ ~authenticated

\* C3: setProvider, and authenticate given an explicit provider, bind the
\* connection when none is bound, change nothing of the binding when the
\* same connection is bound, and fail with ProviderConflict when another
\* one is bound: the bound connection and the identifier stay and
\* authenticate sends no request.  (A step of either method records its
\* name in last.)
C3_ProviderBindingRule ==
    [][/\ \A provider \in Providers :
            (last'.op = "setProvider" /\ SetProvider(provider))
            => /\ _client = undefined => (_client' = provider /\ last'.result.status = "ok")
               /\ _client = provider
                    => (UNCHANGED <<_client, _id, _resolver, calls, nonces>> /\ last'.result.status = "ok")
               /\ _client \notin {undefined, provider}
                    => /\ last'.result.error = ErrProviderConflict
                       /\ UNCHANGED <<_client, _id, _resolver, calls, nonces>>
       /\ \A p \in Procs, provider \in Providers, aud \in Auds \cup {undefined} :
            (last'.op = "authenticate" /\ Authenticate(p, provider, aud))
            => /\ _client = undefined => _client' = provider
               /\ _client = provider => _client' = _client
               /\ _client \notin {undefined, provider}
                    => /\ last'.step = "end"
                       /\ last'.result.error = ErrProviderConflict
                       /\ last'.call.sent = 0
                       /\ UNCHANGED <<_client, _id, _resolver, calls, nonces>>]_vars

C3_Witness ==
    /\ AuthenticateEnded
    /\ last.result.error = ErrProviderConflict
    /\ last.call.sent = 0
    /\ _client \in Providers

\* C4: right after deauthenticate, whatever the state before, authenticated
\* is false, id fails with NotAuthenticated and no provider is bound.
C4_DeauthenticateClears ==
    last.op = "deauthenticate"
    => /\ ~authenticated
       /\ id.status = "error" /\ id.error = ErrNotAuthenticated
       /\ _client = undefined

C4_Witness ==
    /\ last.op = "deauthenticate"
    /\ ~authenticated
    /\ _client = undefined
    /\ \E p \in Procs : calls[p].pc # "idle" /\ ~calls[p].pre.valid

\* C5 (as claimed): an authenticate call that fails leaves the identifier
\* and the provider binding as they were when it started (no other
\* operation having changed them in between).
C5_FailedAuthenticateKeepsNothing ==
    (AuthenticateEnded /\ last.result.status = "error" /\ last.call.pre.valid)
    => (_client = last.call.pre.client /\ _id = last.call.pre.id)

\* C6 (as claimed): whenever the identifier is set a provider is bound.
C6_IdentifierImpliesProvider == authenticated => _client # undefined

\* C15: a verified response that violates one or several of the checks
\* makes authenticate fail with the reason of the earliest violated check
\* in the order kid, nonce, audience, expiry, and the identifier is not
\* set.
C15_EarliestViolationReported ==
    (AuthenticateEnded /\ last.response.verified /\ last.response.violated # {})
    => /\ last.result.status = "error"
       /\ last.result.error = ErrInvalidResponse
       /\ last.result.reason = Earliest(last.response.violated)
       /\ last.call.pre.valid => _id = last.call.pre.id

C15_Witness ==
    /\ AuthenticateEnded /\ last.response.verified
    /\ last.response.violated = {"wrong nonce", "wrong aud", "expired"}
    /\ last.result.reason = "wrong nonce"
    /\ ~authenticated

\* C16 (as claimed): a verified response that passes the kid, nonce and
\* audience checks and whose expiry equals the current time is rejected
\* as expired and the identifier is not set.
C16_ExpiryNowRejected ==
    (AuthenticateEnded /\ last.response.verified /\ last.response.payload = "expiring")
    => /\ last.result.status = "error"
       /\ last.result.reason = "expired"
       /\ last.call.pre.valid => _id = last.call.pre.id

\* the authenticate calls in flight and their nonces
Authenticating == {p \in Procs : calls[p].op = "authenticate"}
NoncesInFlight == {calls[p].nonce : p \in Authenticating}

\* every call in flight holds a nonce of its own, drawn for it
NoncesFresh ==
    \A p \in Authenticating :
        /\ calls[p].nonce \in 1..nonces
        /\ \A q \in Authenticating : q # p => calls[q].nonce # calls[p].nonce
\* a call succeeds only on a response carrying the nonce it drew
SucceedsOnOwnNonce ==
    (AuthenticateEnded /\ last.result.status = "ok")
    => /\ "wrong nonce" \notin last.response.violated
       /\ last.response.nonce \notin NoncesInFlight
\* the call that ended was given a response carrying the nonce of another
\* call, one started earlier or one running now
Replayed ==
    /\ AuthenticateEnded
    /\ last.response.payload \notin {"unread", "undecodable"}
    /\ last.response.nonce \in 1..nonces
    /\ "wrong nonce" \in last.response.violated

\* C17 (as claimed): every authenticate call draws a nonce of its own; a
\* call succeeds only on a response carrying the nonce it drew; a response
\* carrying the nonce of an earlier or of a concurrent call is rejected
\* with InvalidAuthenticationResponse.
C17_ReplayIsInvalidResponse ==
    /\ NoncesFresh
    /\ SucceedsOnOwnNonce
    /\ Replayed => last.result.error = ErrInvalidResponse

\* C17 (amended): every authenticate call draws a nonce of its own, so
\* that the calls in flight hold pairwise different nonces; a call
\* succeeds only on a response carrying the nonce it drew; a response
\* carrying the nonce of an earlier or of a concurrent call never
\* authenticates and leaves the identifier as it was: it is rejected with
\* InvalidAuthenticationResponse when it passes signature verification,
\* and with the failure that stopped verification when it does not.
C17_NonceFreshSingleUse ==
    /\ NoncesFresh
    /\ SucceedsOnOwnNonce
    /\ Replayed
       => /\ last.result.status = "error"
          /\ last.response.verified => last.result.error = ErrInvalidResponse
          /\ ~last.response.verified => StoppedVerification
          /\ last.call.pre.valid => _id = last.call.pre.id

\* a response carrying the nonce of a concurrent call whose signature was
\* not valid was rejected with the verification failure
C17_Witness ==
    /\ Replayed
    /\ last.response.nonce \in NoncesInFlight
    /\ ~last.response.verified
    /\ last.call.checked = 1
    /\ last.result.error = ErrVerificationFailed

\* C19 (as claimed): an authenticate call that was in flight when
\* deauthenticate ran does not set the identifier when it resumes.  Where
\* authenticate calls run one at a time and only deauthenticate unbinds
\* the provider, a call that sent its request and ends with no provider
\* bound is such a call, and no authenticate call has started since.
C19_DeauthenticateCancelsInFlight ==
    (AuthenticateEnded /\ last.call.sent = 1 /\ _client = undefined)
    => _id = undefined

\* C20 (as claimed): the identifier changes only when deauthenticate
\* clears it and when an authenticate call succeeds, which sets it to the
\* identifier claimed by the response of that call, a response that
\* passes signature verification and the four requirements on kid, nonce,
\* audience and expiry; so an identifier that is set is always one such a
\* response claimed.
C20_IdentifierProvenance ==
    [][_id' # _id =>
          \/ last'.op = "deauthenticate" /\ _id' = undefined
          \/ /\ last'.op = "authenticate" /\ last'.step = "end"
             /\ last'.result = Ok(_id')
             /\ last'.response.verified
             /\ last'.response.payload = "valid"
             /\ last'.response.did = _id']_vars

----------------------------------------------------------------------------
(* Properties of verifyJWS *)

\* the envelopes whose header decodes and has no kid, absent or empty
NoKidInputs ==
    {jws \in JWSInputs :
        LET h == IF jws.type = "string" THEN jws.protected ELSE jws.signatures[1].protected
        IN  h.json /\ h.value.kid \in {undefined, ""}}

\* C7: verifyJWS on an envelope whose header has no kid, absent or empty,
\* fails with MissingKid at once: the call asked the resolver for no
\* document and handed no signature to the verifier, and it does not
\* suspend.
C7_MissingKidBeforeResolution ==
    [][\A jws \in NoKidInputs :
          VerifyJWS(Solo, jws)
          => /\ last'.step = "end"
             /\ last'.result.status = "error"
             /\ last'.result.error = ErrMissingKid
             /\ last'.call.asked = 0
             /\ last'.call.checked = 0
             /\ calls' = calls]_vars

C7_Witness ==
    /\ last.op = "verifyJWS" /\ last.step = "end"
    /\ last.result.error = ErrMissingKid
    /\ last.call.asked = 0 /\ last.call.checked = 0

\* C8: verifyJWS returns a result, and authenticate succeeds and sets the
\* identifier, only for an envelope whose kid was resolved and whose
\* signature did-jwt accepted against the resolved key; a failed
\* resolution or an invalid signature ends the call with that failure, and
\* authenticate then leaves the identifier as it was.
C8_FailClosed ==
    (last.step = "end" /\ last.op \in {"verifyJWS", "authenticate"})
    => /\ last.result.status = "ok" => (last.response.verified /\ last.call.checked = 1)
       /\ (last.call.asked = 1 /\ ~last.response.verified)
            => /\ last.result.error \in {ErrResolutionFailed, ErrVerificationFailed}
               /\ last.result.error = ErrResolutionFailed <=> last.call.checked = 0
       /\ (last.op = "authenticate" /\ ~last.response.verified /\ last.call.pre.valid)
            => _id = last.call.pre.id

C8_Witness ==
    /\ last.op = "verifyJWS" /\ last.step = "end"
    /\ last.result.error = ErrVerificationFailed
    /\ last.call.checked = 1
    /\ ~last.response.verified

\* verifyJWS has settled on an envelope with a kid that was resolved and
\* a signature made by a key of the resolved document
VerifiedEnvelope ==
    /\ last.op = "verifyJWS" /\ last.step = "end"
    /\ last.call.checked = 1
    /\ last.response.verified

\* C14: verifyJWS on an envelope with a valid kid and a valid signature
\* succeeds and returns the kid; when the payload segment does not decode
\* the payload is omitted, when it decodes the decoded value is the payload.
C14_UndecodablePayloadOmitted ==
    VerifiedEnvelope
    => /\ last.result.status = "ok"
       /\ last.result.value.kid =
             (IF last.call.jws.type = "string" THEN last.call.jws.protected
              ELSE last.call.jws.signatures[1].protected).value.kid
       /\ IF last.call.jws.payload.json
          THEN /\ last.result.value.hasPayload
               /\ last.result.value.payload = last.call.jws.payload.value
          ELSE ~last.result.value.hasPayload

C14_Witness ==
    /\ VerifiedEnvelope
    /\ last.call.jws.type = "string"
    /\ last.call.jws.payload = CidSeg
    /\ last.result.status = "ok"
    /\ ~last.result.value.hasPayload

----------------------------------------------------------------------------
(* Properties of createJWE *)

CreateJWEEnded == last.op = "createJWE" /\ last.step = "end"

\* C9: when the did_createJWE request succeeds createJWE returns the
\* provider's envelope and the local path has not run; when the request
\* fails the call does not fail there but runs the local path, once, for
\* all the recipients; the local path then settles the call: with the
\* envelope encrypted from the same cleartext, protected header and aad,
\* or, when it fails, with its failure and no envelope.
C9_SingleFallback ==
    [][/\ CreateJWEResponse(Solo)
            => /\ last'.result = Ok(ProviderJWE(createJWE_params(calls[Solo].cleartext,
                                                                  calls[Solo].keys,
                                                                  calls[Solo].options)))
               /\ last'.call.local = 0
               /\ calls'[Solo].pc = "idle"
       /\ CreateJWERequestFails(Solo)
            => /\ last'.step = "await"
               /\ calls'[Solo].pc = "encrypters"
               /\ calls'[Solo].local = 1
               /\ calls'[Solo].recipients = calls[Solo].recipients
       /\ CreateJWELocal(Solo)
            => IF calls[Solo].encrypters
               THEN /\ last'.step = "await"
                    /\ calls'[Solo].pc = "encrypt"
                    /\ calls'[Solo].local = 1
               ELSE /\ last'.step = "end"
                    /\ last'.call.local = 1
                    /\ calls'[Solo].pc = "idle"
                    /\ last'.result.status = "error"
                    /\ last'.result.value = undefined
       /\ CreateJWEEncrypted(Solo)
            => /\ last'.step = "end"
               /\ last'.call.local = 1
               /\ calls'[Solo].pc = "idle"
               /\ IF last'.result.status = "ok"
                  THEN last'.result.value =
                           [by |-> "did-jwt",
                            cleartext |-> calls[Solo].cleartext,
                            recipients |-> calls[Solo].recipients,
                            protectedHeader |-> calls[Solo].options.protectedHeader,
                            aad |-> calls[Solo].options.aad]
                  ELSE /\ last'.result.status = "error"
                       /\ last'.result.value = undefined
                       /\ calls[Solo].recipients = <<>>]_vars

C9_Witness ==
    /\ CreateJWEEnded
    /\ last.call.sent = 1 /\ last.call.local = 1
    /\ last.result.status = "ok"
    /\ last.result.value.by = "did-jwt"
    /\ Len(last.result.value.recipients) = 2
    /\ last.result.value.aad = "aad"

\* the first recipient's document of the createJWE call that ended was
\* resolved and has no extractable key: no public key, or a first key
\* without publicKeyHex
NoExtractableKey ==
    /\ CreateJWEEnded
    /\ last.call.asked = 1 /\ last.call.resolved.found
    /\ \/ last.call.resolved.doc.publicKey = <<>>
       \/ last.call.resolved.doc.publicKey[1].publicKeyHex = undefined

\* C10 (as claimed): when the first recipient's document has no extractable
\* key, createJWE with a bound provider runs the local path and what it
\* returns is the locally encrypted envelope addressed to all recipients,
\* never a provider-made envelope.
C10_NoKeyFallsBackToLocal ==
    (NoExtractableKey /\ last.call.pre.valid /\ last.call.pre.client # undefined)
    => /\ last.call.local = 1
       /\ last.result.status = "ok"
            => /\ last.result.value.by = "did-jwt"
               /\ last.result.value.recipients = last.call.recipients

\* C11 (as claimed): every did_createJWE request in flight carries a
\* non-empty recipients list with a key for each DID the caller named, and
\* every envelope createJWE returned has at least one recipient and as
\* many recipients as the caller named.
C11_EnvelopeCoversRecipients ==
    /\ \A p \in Procs :
          (calls[p].op = "createJWE" /\ calls[p].pc = "request")
          => /\ calls[p].keys # <<>>
             /\ Len(calls[p].keys) = Len(calls[p].recipients)
    /\ (CreateJWEEnded /\ last.result.status = "ok")
          => /\ last.result.value.recipients # <<>>
             /\ Len(last.result.value.recipients) = Len(last.call.recipients)

----------------------------------------------------------------------------
(* Properties of createJWS and decryptJWE *)

\* what a createJWS or decryptJWE call started in slot p with options.did =
\* did must do: fail with NoProvider or NotAuthenticated and send nothing,
\* or send one request for did, or for the identifier when did is not set
GuardedRequest(p, did, method) ==
    IF _client = undefined
    THEN /\ last'.step = "end" /\ last'.result.error = ErrNoProvider
         /\ last'.call.sent = 0 /\ calls' = calls
    ELSE IF _id = undefined
    THEN /\ last'.step = "end" /\ last'.result.error = ErrNotAuthenticated
         /\ last'.call.sent = 0 /\ calls' = calls
    ELSE /\ last'.step = "await"
         /\ calls'[p].sent = 1
         /\ calls'[p].request.method = method
         /\ calls'[p].request.did = IF did \in {undefined, ""} THEN _id ELSE did

\* C12: createJWS and decryptJWE fail with NoProvider when no provider is
\* bound and with NotAuthenticated when a provider is bound and no
\* identifier is set, sending no request; otherwise they send one request,
\* whose did is options.did when the caller set it and the identifier
\* otherwise, and no further request before they settle.
C12_GuardedProviderRequests ==
    [][/\ \A p \in Procs, payload \in JWSPayloads, did \in OptionDids :
            (last'.op = "createJWS" /\ CreateJWS(p, payload, JWSOptions(did, undefined)))
            => GuardedRequest(p, did, "did_createJWS")
       /\ \A p \in Procs, jwe \in JWEInputs, did \in OptionDids :
            (last'.op = "decryptJWE" /\ DecryptJWE(p, jwe, JWEOptions(did)))
            => GuardedRequest(p, did, "did_decryptJWE")
       /\ (last'.op \in {"createJWS", "decryptJWE"} /\ last'.step = "end")
            => last'.call.sent <= 1]_vars

C12_Witness ==
    \E p \in Procs :
        /\ calls[p].op = "decryptJWE" /\ calls[p].pc = "request"
        /\ calls[p].sent = 1
        /\ calls[p].request.did = DID_AB
        /\ calls[p].pre.valid /\ calls[p].pre.id = DID_A

----------------------------------------------------------------------------
(* Properties of createDagJWS followed by verifyJWS *)

\* verifyJWS has settled on an envelope that createDagJWS returned (it has
\* a link), signed by an honest provider, whose kid was resolved
RoundTripVerified ==
    /\ last.op = "verifyJWS" /\ last.step = "end"
    /\ "link" \in DOMAIN last.call.jws
    /\ SignatureOf(last.call.jws) = KeyOf(DidOf(verifyJWS_kid(last.call.jws).value))
    /\ last.call.checked = 1

\* C13 (as claimed): verifyJWS on the envelope returned by createDagJWS
\* succeeds and its result carries a payload, the content identifier of
\* the encoded payload.
C13_RoundTripRecoversCid ==
    RoundTripVerified
    => /\ last.result.status = "ok"
       /\ last.result.value.hasPayload
       /\ last.result.value.payload = last.call.jws.link

\* C13 (amended): createDagJWS returns the envelope with the content
\* identifier of the encoded payload as its link, next to the block of
\* that payload, and an honest provider's envelope has the base64url
\* encoding of that identifier as its payload; verifyJWS on it succeeds
\* and returns the kid of the signer with the payload omitted.
C13_RoundTripOmitsPayload ==
    /\ (last.op = "createDagJWS" /\ last.step = "end" /\ last.result.status = "ok")
         => /\ last.result.value.jws.link = encodePayload(last.call.payload).cid
            /\ last.result.value.linkedBlock = encodePayload(last.call.payload).linkedBlock
            /\ SignatureOf(last.result.value.jws) = KeyOf(last.call.request.did)
                 => last.result.value.jws.payload = encodeBase64Url(last.result.value.jws.link)
    /\ RoundTripVerified
         => /\ last.result.status = "ok"
            /\ last.result.value.kid = last.call.jws.signatures[1].protected.value.kid
            /\ ~last.result.value.hasPayload
            /\ last.call.jws.payload = encodeBase64Url(last.call.jws.link)

C13_Witness ==
    /\ RoundTripVerified
    /\ last.result.status = "ok"
    /\ last.call.jws.link = "cid:doc2"
    /\ last.result.value.kid = KidOf(DID_AB)

----------------------------------------------------------------------------
(* Properties of the methods that sign, encrypt, decrypt, verify and resolve *)

ReadingMethods ==
    {"createJWS", "createDagJWS", "createJWE", "createDagJWE", "decryptJWE",
     "decryptDagJWE", "verifyJWS", "resolve"}

\* C18: no step of createJWS, createDagJWS, createJWE, createDagJWE,
\* decryptJWE, decryptDagJWE, verifyJWS or
\* resolve changes the identifier, the provider binding or the resolver,
\* whether the call goes on, returns or throws, and whatever other calls
\* are in flight.
C18_ReadingMethodsChangeNothing ==
    [][last'.op \in ReadingMethods => UNCHANGED <<_client, _id, _resolver>>]_vars

\* a createJWS call returned the provider's envelope while another call
\* was in flight, and the instance is as it was when the call started
C18_Witness ==
    /\ last.op = "createJWS" /\ last.step = "end" /\ last.result.status = "ok"
    /\ \E q \in Procs : calls[q].op \in ReadingMethods
    /\ last.call.pre.valid
    /\ _client = last.call.pre.client /\ _id = last.call.pre.id
    /\ _id \in AuthDIDs

====
